---- MODULE Spec2Model ----
(***************************************************************************)
(* Model of the error-management / self-healing subsystem of the           *)
(* temperature-monitoring demo:                                            *)
(*   - ServerManager and ErrorManager            (src/error_manager.py)    *)
(*   - AIMonitor._trigger_error_management       (src/ai_monitor.py)       *)
(*   - SelfHealingMonitor                        (src/self_healing_system.py)*)
(*   - the batch fixers             (src/ai_fix_project.py, src/AI/AI/ai_fix.py)*)
(*   - TerminalErrorInterface           (src/terminal_error_interface.py)  *)
(* Specifications: SpecEM (supervisor + handle-error cycle, two detector   *)
(* threads), SpecEMFair (the monitoring thread alone, scheduled fairly,    *)
(* with an operator who always resumes), SpecFix (the components that      *)
(* write AI output to source files), SpecSM (the ServerManager API called  *)
(* directly on the ErrorManager's entries), SpecDemo (the same API on a    *)
(* fresh ServerManager) and SpecDetect (the two detector loops).           *)
(***************************************************************************)
EXTENDS Integers, Sequences, FiniteSets, TLC

VARIABLES
  \* ---- ServerManager (error_manager.py:26-30) and the OS process table
  servers,          \* name -> [running, process]; process = NoPid or a pid
  regOrder,         \* insertion order of the servers dict
  paused_servers,   \* set of names
  os,               \* pid -> state of the child process as the kernel sees it
  \* ---- ErrorManager (error_manager.py:167-174)
  error_detected, current_error, correction_code, error_lock,
  monitoring_active, ai_client,
  gen_result,       \* what generate_correction_code returned (line 403)
  \* ---- threads running handle_error
  started,          \* start_all_servers has run
  pc, arg,          \* position of each thread, and the error it passed
  contended,        \* history: the call was made while a cycle was in flight
  exited,           \* the whole program has exited
  \* ---- the world the detectors read
  files,            \* path -> content of the source file
  log,              \* lines of simulation/logs/error_events.log (their 'type')
  \* ---- which program is running (each script is a program of its own)
  program,
  \* ---- SelfHealingMonitor (self_healing_system.py:75-80) and the locals of
  \* fix_file_with_ai / get_user_permission
  hpc,              \* "idle", "gen" (ai_client.generate running), "ask" (input())
  hfile, herror,    \* arguments file_path and error_text (its kind)
  ai_response,      \* what the last generate call returned (or that it raised)
  fixed_code,       \* the extracted candidate
  response,         \* the operator's last answer to "Apply this fix?"
  preContent,       \* history: content of hfile when the error was detected
  backups,          \* files of BACKUP_DIR: [name, stamp, content]
  now,              \* what datetime.now() reads (local wall-clock time)
  scanned,          \* files the current pass of monitor_files has handled
  fix_history, error_history,
  lastResult,       \* what the last fix_file_with_ai call returned
  \* ---- ai_fix_project.py main, and AI/AI/ai_fix.py main
  bpc, attempt, btarget, bexit,
  run_result,       \* what the last run_command call returned
  apc, aexit,
  \* ---- a program that calls the ServerManager API directly
  call,             \* history: the last call, what it returned and signalled
  \* ---- the detector loops
  handed            \* history: the errors the last poll cycle handed over

smVars   == <<servers, regOrder, paused_servers, os>>
emVars   == <<error_detected, current_error, correction_code, gen_result, error_lock,
              monitoring_active, ai_client, started, pc, arg, contended, exited>>
envVars  == <<files, log>>
healVars == <<program, hpc, hfile, herror, ai_response, fixed_code, response,
              preContent, backups, now, scanned, fix_history, error_history,
              lastResult>>
batchVars == <<bpc, attempt, btarget, bexit, run_result, apc, aexit>>
extVars == <<call, handed>>
vars == <<smVars, emVars, envVars, healVars, batchVars, extVars>>

\* info['process'] is None
NoPid == 0

-----------------------------------------------------------------------------
(* Bounds *)

\* number of records the servers append to error_events.log
MaxLog == 1

\* number of errors the self-healing monitor detects
MaxCycles == 2

\* seconds the clock advances
MaxClock == 1

\* --max-attempts of the batch fixer
MaxAttempts == 2

\* frames in a traceback
MaxFrames == 2

\* children that can be alive besides one child per registered name
MaxOrphans == 1

-----------------------------------------------------------------------------
(* Source files and their contents *)

\* two of the tracked Python files (error_manager.py:296-301)
PythonFiles == <<"simulation/sensor_server.py", "UI/ui_server.py">>
Files == {PythonFiles[i] : i \in 1..Len(PythonFiles)}

\* file contents: an empty file, a program that compiles, two that do not
Contents == {"", "ok", "bad", "bad2"}

\* compile(content, path, 'exec') raises no SyntaxError
CompilesOk(c) == c \in {"", "ok"}

-----------------------------------------------------------------------------
(* ServerManager, as operators on S = [servers, order, paused, os] *)

ServerNames == <<"simulation", "ui", "ai_chat">>
Names == {ServerNames[i] : i \in 1..Len(ServerNames)}
\* the process table: a child takes a free slot when it is spawned
Pids == 1..(Len(ServerNames) + MaxOrphans)

\* kernel states of a child: running; stopped by SIGSTOP; stopped with a
\* SIGTERM pending; running with a SIGTERM delivered but not yet exited; exited
OsStates == {"free", "run", "stop", "stopterm", "dying", "dead"}

\* process.poll() is None
Alive(osr, p) == osr[p] \in {"run", "stop", "stopterm", "dying"}

SigStop(st) == IF st = "run" THEN "stop"
               ELSE IF st = "dying" THEN "stopterm" ELSE st
SigCont(st) == IF st = "stop" THEN "run"
               ELSE IF st = "stopterm" THEN "dying" ELSE st
SigTerm(st) == IF st = "run" THEN "dying"
               ELSE IF st = "stop" THEN "stopterm" ELSE st

\* the supervisor's fields and the process table at the start of a call; a
\* call adds what it returned (ret), the signals it sent (sent, in order) and,
\* for the *_all calls, the single-entry calls it made (visited, in order)
SMState == [servers |-> servers, order |-> regOrder,
            paused |-> paused_servers, os |-> os,
            ret |-> "None", sent |-> <<>>, visited |-> <<>>]

Registered(S, n) == n \in DOMAIN S.servers

PauseServerNoSignal(S, name) ==
  IF ~Registered(S, name) \/ ~S.servers[name].running THEN [S EXCEPT !.ret = "False"]
  ELSE LET p == S.servers[name].process IN
       IF p # NoPid /\ Alive(S.os, p)
       THEN [S EXCEPT !.paused = @ \cup {name}, !.ret = "True"]
       ELSE [S EXCEPT !.ret = "False"]

PauseServerChecksPaused(S, name) ==
  IF ~Registered(S, name) \/ ~S.servers[name].running \/ name \in S.paused
  THEN [S EXCEPT !.ret = "False"]
  ELSE LET p == S.servers[name].process IN
       IF p # NoPid /\ Alive(S.os, p)
       THEN [S EXCEPT !.os[p] = SigStop(@), !.paused = @ \cup {name},
                      !.sent = Append(@, <<p, "SIGSTOP">>), !.ret = "True"]
       ELSE [S EXCEPT !.ret = "False"]

\* pause_server
PauseServer(S, name) ==
  IF ~Registered(S, name) \/ ~S.servers[name].running THEN [S EXCEPT !.ret = "False"]
  ELSE LET p == S.servers[name].process IN
       IF p # NoPid /\ Alive(S.os, p)
       THEN [S EXCEPT !.os[p] = SigStop(@), !.paused = @ \cup {name},
                      !.sent = Append(@, <<p, "SIGSTOP">>), !.ret = "True"]
       ELSE [S EXCEPT !.ret = "False"]

\* resume_server
ResumeServer(S, name) ==
  IF ~Registered(S, name) \/ name \notin S.paused THEN [S EXCEPT !.ret = "False"]
  ELSE LET p == S.servers[name].process IN
       IF p # NoPid /\ Alive(S.os, p)
       THEN [S EXCEPT !.os[p] = SigCont(@), !.paused = @ \ {name},
                      !.sent = Append(@, <<p, "SIGCONT">>), !.ret = "True"]
       ELSE [S EXCEPT !.ret = "False"]

\* stop_server; intime: the children that exit within the 5 s of
\* process.wait(timeout=5) once SIGTERM is delivered to them
StopServer(S, name, intime) ==
  IF ~Registered(S, name) THEN [S EXCEPT !.ret = "False"]
  ELSE LET p == S.servers[name].process
           cleared == [S EXCEPT !.servers[name] = [running |-> FALSE, process |-> NoPid],
                                !.paused = @ \ {name}, !.ret = "True"]
       IN IF p # NoPid /\ Alive(S.os, p)
          THEN IF S.os[p] \in {"run", "dying"} /\ name \in intime
               THEN [cleared EXCEPT !.os[p] = "dead",
                                    !.sent = Append(@, <<p, "SIGTERM">>)]
               ELSE \* TimeoutExpired: caught at line 144, return False
                    [S EXCEPT !.os[p] = SigTerm(@),
                              !.sent = Append(@, <<p, "SIGTERM">>), !.ret = "False"]
          ELSE cleared

RECURSIVE PauseFromStopsAtFailure(_, _)
PauseFromStopsAtFailure(S, i) ==
  IF i > Len(S.order) THEN S
  ELSE LET n == S.order[i] IN
       IF S.servers[n].running /\ n \notin S.paused
       THEN LET S1 == PauseServer([S EXCEPT !.visited = Append(@, n)], n)
            IN IF S1.ret = "False" THEN S1 ELSE PauseFromStopsAtFailure(S1, i + 1)
       ELSE PauseFromStopsAtFailure(S, i + 1)

\* pause_all_servers, from the i-th key of the servers dict on
RECURSIVE PauseFrom(_, _)
PauseFrom(S, i) ==
  IF i > Len(S.order) THEN S
  ELSE LET n == S.order[i] IN
       PauseFrom(IF S.servers[n].running /\ n \notin S.paused
                 THEN PauseServer([S EXCEPT !.visited = Append(@, n)], n)
                 ELSE S, i + 1)

PauseAllServers(S) == PauseFrom(S, 1)

\* the orders in which list(a_set) can enumerate a set
Orders(set) ==
  {ord \in [1..Cardinality(set) -> set] :
     \A i, j \in 1..Cardinality(set) : ord[i] = ord[j] => i = j}

\* resume_all_servers, from the i-th element of list(self.paused_servers) on
RECURSIVE ResumeFrom(_, _, _)
ResumeFrom(S, ord, i) ==
  IF i > Len(ord) THEN S
  ELSE ResumeFrom(ResumeServer([S EXCEPT !.visited = Append(@, ord[i])], ord[i]),
                  ord, i + 1)

ResumeAllServers(S, ord) == ResumeFrom(S, ord, 1)

\* stop_all_servers, from the i-th key of the servers dict on
RECURSIVE StopFrom(_, _, _)
StopFrom(S, i, intime) ==
  IF i > Len(S.order) THEN S
  ELSE StopFrom(StopServer([S EXCEPT !.visited = Append(@, S.order[i])],
                           S.order[i], intime),
                i + 1, intime)

StopAllServers(S, intime) == StopFrom(S, 1, intime)

\* register_server: the descriptor of the name is created, or replaced by a
\* fresh one (process None, running False); nothing else is touched
RegisterServer(S, name) ==
  [S EXCEPT !.servers = [n \in DOMAIN S.servers \cup {name} |->
                           IF n = name
                           THEN [running |-> FALSE, process |-> NoPid]
                           ELSE S.servers[n]],
            !.order = IF Registered(S, name) THEN @ ELSE Append(@, name),
            !.ret = "None"]

\* the slot the next child of `name` takes, among those that hold no live
\* process and that no other entry's handle refers to: the slot of the
\* name's registration index when it is one of them, else the lowest;
\* NoPid when the process table is full
FreePid(S, name) ==
  LET free == {p \in Pids :
                 /\ ~Alive(S.os, p)
                 /\ \A m \in DOMAIN S.servers \ {name} :
                      S.servers[m].process # p}
      i == CHOOSE k \in 1..Len(S.order) : S.order[k] = name
  IN IF free = {} THEN NoPid
     ELSE IF i \in free THEN i
     ELSE CHOOSE p \in free : \A q \in free : p <= q

\* start_server; ok: subprocess.Popen succeeds (it fails when the process
\* table is full). The entry's previous handle, if any, is overwritten
StartServer(S, name, ok) ==
  IF ~Registered(S, name) THEN [S EXCEPT !.ret = "False"]
  ELSE IF ok /\ FreePid(S, name) # NoPid
  THEN LET i == FreePid(S, name)
       IN [S EXCEPT !.servers[name] = [running |-> TRUE, process |-> i],
                    !.os[i] = "run", !.ret = "True"]
  ELSE [S EXCEPT !.ret = "False"]

\* launched: the names whose subprocess.Popen succeeds
RECURSIVE StartFrom(_, _, _)
StartFrom(S, i, launched) ==
  IF i > Len(S.order) THEN S
  ELSE LET n == S.order[i] IN
       StartFrom(StartServer(S, n, n \in launched), i + 1, launched)

\* get_server_status
GetServerStatus(S) ==
  [n \in DOMAIN S.servers |->
     [running |-> S.servers[n].running,
      paused |-> n \in S.paused,
      pid |-> S.servers[n].process]]

SetSM(S) ==
  /\ servers' = S.servers
  /\ regOrder' = S.order
  /\ paused_servers' = S.paused
  /\ os' = S.os

-----------------------------------------------------------------------------
(* ErrorManager: detection *)

Threads == {"detector", "ai_monitor"}

NoError == [type |-> "None", severity |-> "None", subject |-> "None"]

CrashError(n)  == [type |-> "server_crash", severity |-> "critical", subject |-> n]
LogErrorHigh   == [type |-> "log_error", severity |-> "high", subject |-> "log"]
LogError       == [type |-> "log_error", severity |-> "medium", subject |-> "log"]
SyntaxError(f) == [type |-> "syntax_error", severity |-> "high", subject |-> f]
AiCritical     == [type |-> "ai_analysis_critical", severity |-> "critical",
                   subject |-> "analysis"]

\* the last 10 lines of a log (lines[-10:])
TailLines == 10
LastLines(lines) ==
  IF Len(lines) <= TailLines THEN lines
  ELSE SubSeq(lines, Len(lines) - TailLines + 1, Len(lines))

RECURSIVE CrashErrorsFrom(_)
CrashErrorsFrom(i) ==
  IF i > Len(regOrder) THEN <<>>
  ELSE LET n == regOrder[i]
           info == servers[n]
       IN (IF info.running /\ info.process # NoPid /\ ~Alive(os, info.process)
           THEN <<CrashError(n)>> ELSE <<>>) \o CrashErrorsFrom(i + 1)

RECURSIVE LogErrorsFrom(_, _)
LogErrorsFrom(lines, i) ==
  IF i > Len(lines) THEN <<>>
  ELSE (IF lines[i] = "error" THEN <<LogError>> ELSE <<>>)
       \o LogErrorsFrom(lines, i + 1)

CheckLogErrors == LogErrorsFrom(LastLines(log), 1)

RECURSIVE SyntaxErrorsFrom(_)
SyntaxErrorsFrom(i) ==
  IF i > Len(PythonFiles) THEN <<>>
  ELSE (IF ~CompilesOk(files[PythonFiles[i]])
        THEN <<SyntaxError(PythonFiles[i])>> ELSE <<>>)
       \o SyntaxErrorsFrom(i + 1)

CheckSyntaxErrors == SyntaxErrorsFrom(1)

DetectErrors == CrashErrorsFrom(1) \o CheckLogErrors \o CheckSyntaxErrors

IsCriticalOrHigh(e) == e.severity \in {"critical", "high"}
IsMedium(e) == e.severity = "medium"

SelectFirstFound(errors) ==
  IF errors = <<>> THEN NoError ELSE errors[1]

\* the error start_monitoring hands to handle_error, or NoError
SelectError(errors) ==
  LET critical_errors == SelectSeq(errors, IsCriticalOrHigh)
      medium_errors == SelectSeq(errors, IsMedium)
  IN IF critical_errors # <<>> THEN critical_errors[1]
     ELSE IF medium_errors # <<>> THEN medium_errors[1]
     ELSE NoError

-----------------------------------------------------------------------------
(* ErrorManager: the handle-error cycle.                                   *)
(* Positions of a thread: "idle" (in its poll loop), "wait" (blocked on    *)
(* `with self.error_lock`), "entered" (lock held, flag seen False), "gen"  *)
(* (flag set, generate_correction_code running), "prompt" (servers paused, *)
(* error displayed, blocked on input()), "dead" (ended by SystemExit).     *)

Placeholder == "manual-fix-placeholder"

\* what generate_correction_code can return: None (no client, or the provider
\* raised), or response.text.strip(), possibly empty
GenResults == IF ai_client THEN {"None", "", "fix"} ELSE {"None"}

\* `if not correction_code:` replaces None and "" by the placeholder
CorrectionShown(result) ==
  IF result \in {"None", ""} THEN Placeholder ELSE result

InCycle == {"entered", "gen", "prompt"}

\* ErrorManager.start_monitoring, one poll that ends in a handle_error call
DetectorPoll ==
  /\ started /\ ~exited /\ monitoring_active
  /\ pc["detector"] = "idle"
  /\ LET e == SelectError(DetectErrors) IN
     /\ e # NoError
     /\ pc' = [pc EXCEPT !["detector"] = "wait"]
     /\ arg' = [arg EXCEPT !["detector"] = e]
     /\ contended' = [contended EXCEPT !["detector"] = error_detected]
  /\ UNCHANGED <<smVars, error_detected, current_error, correction_code, gen_result,
                 error_lock, monitoring_active, ai_client, started, exited,
                 envVars, healVars, batchVars, extVars>>

\* AIMonitor._process_analysis_results with critical_detected, which calls
\* _trigger_error_management (whether the analysis of the recent sensor,
\* data and error logs names a critical issue is the provider's answer)
AiMonitorPoll ==
  /\ started /\ ~exited
  /\ pc["ai_monitor"] = "idle"
  /\ pc' = [pc EXCEPT !["ai_monitor"] = "wait"]
  /\ arg' = [arg EXCEPT !["ai_monitor"] = AiCritical]
  /\ contended' = [contended EXCEPT !["ai_monitor"] = error_detected]
  /\ UNCHANGED <<smVars, error_detected, current_error, correction_code, gen_result,
                 error_lock, monitoring_active, ai_client, started, exited,
                 envVars, healVars, batchVars, extVars>>

LockNeverBlocks(t) == TRUE

\* `with self.error_lock:` can be entered by t
LockAvailable(t) == error_lock = "free"

\* handle_error, lines 395-397: take the lock, test the flag
Acquire(t) ==
  /\ ~exited
  /\ pc[t] = "wait"
  /\ LockAvailable(t)
  /\ IF error_detected
     THEN /\ pc' = [pc EXCEPT ![t] = "idle"]      \* return: already handling
          /\ arg' = [arg EXCEPT ![t] = NoError]
          /\ contended' = [contended EXCEPT ![t] = FALSE]
          /\ error_lock' = "free"
     ELSE /\ pc' = [pc EXCEPT ![t] = "entered"]
          /\ error_lock' = t
          /\ UNCHANGED <<arg, contended>>
  /\ UNCHANGED <<smVars, error_detected, current_error, correction_code, gen_result,
                 monitoring_active, ai_client, started, exited,
                 envVars, healVars, batchVars, extVars>>

\* handle_error, lines 399-400
Enter(t) ==
  /\ ~exited
  /\ pc[t] = "entered"
  /\ error_detected' = TRUE
  /\ current_error' = arg[t]
  /\ pc' = [pc EXCEPT ![t] = "gen"]
  /\ UNCHANGED <<smVars, correction_code, gen_result, error_lock, monitoring_active,
                 ai_client, started, arg, contended, exited,
                 envVars, healVars, batchVars, extVars>>

\* handle_error, lines 402-414: the generation returns, the servers are
\* paused, the error is displayed
GenerateWritingFile(t) ==
  /\ ~exited
  /\ pc[t] = "gen"
  /\ \E result \in GenResults :
       /\ gen_result' = result
       /\ correction_code' = CorrectionShown(result)
       /\ files' = IF arg[t].type = "syntax_error"
                   THEN [files EXCEPT ![arg[t].subject] = CorrectionShown(result)]
                   ELSE [f \in Files |-> CorrectionShown(result)]
  /\ SetSM(PauseAllServers(SMState))
  /\ pc' = [pc EXCEPT ![t] = "prompt"]
  /\ UNCHANGED <<error_detected, current_error, error_lock, monitoring_active,
                 ai_client, started, arg, contended, exited, log,
                 healVars, batchVars, extVars>>

Generate(t) ==
  /\ ~exited
  /\ pc[t] = "gen"
  /\ \E result \in GenResults :
       /\ gen_result' = result
       /\ correction_code' = CorrectionShown(result)
  /\ SetSM(PauseAllServers(SMState))
  /\ pc' = [pc EXCEPT ![t] = "prompt"]
  /\ UNCHANGED <<error_detected, current_error, error_lock, monitoring_active,
                 ai_client, started, arg, contended, exited,
                 envVars, healVars, batchVars, extVars>>

\* handle_error, lines 424-442: ENTER at the prompt
InputResume(t) ==
  /\ ~exited
  /\ pc[t] = "prompt"
  /\ \E ord \in Orders(paused_servers) : SetSM(ResumeAllServers(SMState, ord))
  /\ error_detected' = FALSE
  /\ current_error' = NoError
  /\ correction_code' = "None"
  /\ gen_result' = "None"
  /\ error_lock' = "free"
  /\ pc' = [pc EXCEPT ![t] = "idle"]
  /\ arg' = [arg EXCEPT ![t] = NoError]
  /\ contended' = [contended EXCEPT ![t] = FALSE]
  /\ UNCHANGED <<monitoring_active, ai_client, started, exited,
                 envVars, healVars, batchVars, extVars>>

\* start_monitoring runs in the process's main thread when error_manager.py
\* is the program (line 501) and in a daemon thread under
\* start_system_with_error_management.py (line 147); the AI monitor loop
\* always runs in a daemon thread (ai_monitor.py:42)
CanBeMain(t) == IF t = "detector" THEN BOOLEAN ELSE {FALSE}

\* handle_error, lines 420-423 and 426-429: 'q' or Ctrl-C at the prompt.
\* stop_all_servers, then sys.exit(0): SystemExit leaves the with block
\* (releasing the lock) and ends the thread that raised it; neither
\* start_monitoring nor _trigger_error_management catches it.
InputQuit(t) ==
  /\ ~exited
  /\ pc[t] = "prompt"
  /\ \E intime \in SUBSET Names, inMain \in CanBeMain(t) :
       LET S1 == StopAllServers(SMState, intime) IN
       IF inMain
       THEN \* error_manager.py main, line 505: finally stop_all_servers()
            /\ SetSM(StopAllServers(S1, intime))
            /\ exited' = TRUE
            /\ pc' = [x \in Threads |-> "dead"]
       ELSE /\ SetSM(S1)
            /\ exited' = exited
            /\ pc' = [pc EXCEPT ![t] = "dead"]
  /\ error_lock' = "free"
  /\ UNCHANGED <<error_detected, current_error, correction_code, gen_result,
                 monitoring_active, ai_client, started, arg, contended,
                 envVars, healVars, batchVars, extVars>>

\* input() raises EOFError (stdin closed): not caught in handle_error; it
\* leaves the with block and is caught by the caller's `except Exception`
\* (start_monitoring line 470, _trigger_error_management line 221)
InputEOF(t) ==
  /\ ~exited
  /\ pc[t] = "prompt"
  /\ error_lock' = "free"
  /\ pc' = [pc EXCEPT ![t] = "idle"]
  /\ arg' = [arg EXCEPT ![t] = NoError]
  /\ contended' = [contended EXCEPT ![t] = FALSE]
  /\ UNCHANGED <<smVars, error_detected, current_error, correction_code, gen_result,
                 monitoring_active, ai_client, started, exited,
                 envVars, healVars, batchVars, extVars>>

\* ErrorManager.start_all_servers
StartAllServers ==
  /\ ~started
  /\ \E launched \in SUBSET Names : SetSM(StartFrom(SMState, 1, launched))
  /\ started' = TRUE
  /\ UNCHANGED <<error_detected, current_error, correction_code, gen_result,
                 error_lock, monitoring_active, ai_client, pc, arg, contended, exited,
                 envVars, healVars, batchVars, extVars>>

-----------------------------------------------------------------------------
(* The environment of the supervisor *)

\* a child exits on its own, crashes, or is killed (also while stopped)
ChildExit(p) ==
  /\ Alive(os, p)
  /\ os' = [os EXCEPT ![p] = "dead"]
  /\ UNCHANGED <<servers, regOrder, paused_servers, emVars, envVars,
                 healVars, batchVars, extVars>>

\* a developer edits a tracked file
EditFile(f, c) ==
  /\ started
  /\ files[f] # c
  /\ c \in {"ok", "bad"}
  /\ files' = [files EXCEPT ![f] = c]
  /\ UNCHANGED <<smVars, emVars, log, healVars, batchVars, extVars>>

\* a server appends a record to the error log (event_logger.log_error_event
\* writes "type": "error")
AppendLog(r) ==
  /\ started
  /\ Len(log) < MaxLog
  /\ log' = Append(log, r)
  /\ UNCHANGED <<smVars, emVars, files, healVars, batchVars, extVars>>

-----------------------------------------------------------------------------
(* The AI reply and the extraction of the candidate from it *)

\* A reply of the provider: either plain text, or prose around a first fenced
\* code block whose body is text. AIClient.generate returns text.strip(), so
\* a plain reply carries no surrounding blanks; the body of a fence may.
Replies ==
  [fenced : {FALSE}, text : {"", "ok", "bad2"}]
    \cup [fenced : {TRUE}, text : {"", " ", "ok", "bad2"}]

NoReply == [fenced |-> FALSE, text |-> "None"]
Raised  == [fenced |-> FALSE, text |-> "raised"]

\* str.strip()
Strip(text) == IF text = " " THEN "" ELSE text

ExtractUnstripped(r) == r.text

\* code_block_re.search(...).group(1).strip(), else ai_response.strip()
ExtractCode(r) == Strip(r.text)

-----------------------------------------------------------------------------
(* SelfHealingMonitor *)

\* file_path.name
BaseName(f) ==
  IF f = "simulation/sensor_server.py" THEN "sensor_server.py"
  ELSE "ui_server.py"

\* backup_name = f"{file_path.name}.backup_{timestamp}"
BackupName(f, t) == <<BaseName(f), ".backup_", t>>

CreateBackupAfterWrite(fs, f, t) ==
  [name |-> BackupName(f, t), content |-> fixed_code]

\* create_backup: shutil.copy2(file_path, backup_path); the file written
CreateBackup(fs, f, t) ==
  [name |-> BackupName(f, t), content |-> fs[f]]

\* BACKUP_DIR after a file was written to it (a same-named file is replaced)
WithBackup(dir, b) == {x \in dir : x.name # b.name} \cup {b}

\* what the operator can type at "Apply this fix?"
Answers == {"y", "YES", " yes ", "n", "No", "d", "details", "x", ""}

\* input(...).lower().strip()
Normalise(a) ==
  IF a \in {"YES", " yes "} THEN "yes"
  ELSE IF a = "No" THEN "no"
  ELSE a

ApprovesUnlessNo(resp) == resp \notin {"n", "no"}

\* get_user_permission returns True
Approves(resp) == resp \in {"y", "yes"}

DeclinesOnlyN(resp) == resp = "n"

\* get_user_permission returns False
Declines(resp) == resp \in {"n", "no"}

RestoredOnFailure(fs, f, original) ==
  IF CompilesOk(fs[f]) THEN fs ELSE [fs EXCEPT ![f] = original]

\* the files after the verification of lines 223-244: nothing is restored
AfterVerification(fs, f, original) == fs

\* monitor_files finds an error in f (a syntax error, or for a main file that
\* compiles a failing run), records it and calls fix_file_with_ai, which reads
\* the file and asks the provider
HealDetect(f, kind) ==
  /\ program = "self_healing"
  /\ hpc = "idle"
  /\ Len(error_history) < MaxCycles
  /\ f \notin scanned
  /\ scanned' = scanned \cup {f}
  /\ \/ kind = "syntax" /\ ~CompilesOk(files[f])
     \/ kind = "runtime" /\ CompilesOk(files[f])
  /\ error_history' = Append(error_history, [file |-> f, type |-> kind])
  /\ IF ai_client
     THEN /\ hfile' = f
          /\ herror' = kind
          /\ preContent' = files[f]
          /\ ai_response' = NoReply
          /\ fixed_code' = "None"
          /\ response' = "None"
          /\ lastResult' = "None"
          /\ hpc' = "gen"
     ELSE \* Manual fix required
          UNCHANGED <<hfile, herror, preContent, ai_response, fixed_code,
                      response, lastResult, hpc>>
  /\ UNCHANGED <<smVars, emVars, envVars, program, backups, now, fix_history,
                 batchVars, extVars>>

\* fix_file_with_ai, lines 194-206: the provider answers or raises
HealGenerated(r) ==
  /\ program = "self_healing"
  /\ hpc = "gen"
  /\ ai_response' = r
  /\ IF r = Raised \/ ExtractCode(r) = ""
     THEN /\ lastResult' = "False"
          /\ hpc' = "idle"
          /\ fixed_code' = fixed_code
     ELSE /\ fixed_code' = ExtractCode(r)
          /\ hpc' = "ask"
          /\ lastResult' = lastResult
  /\ UNCHANGED <<smVars, emVars, envVars, program, hfile, herror, response,
                 preContent, backups, now, scanned, fix_history, error_history,
                 batchVars, extVars>>

\* fix_file_with_ai, lines 208-244, for one answer of the operator; copied:
\* shutil.copy2 succeeds (when it raises, line 246 catches it)
HealAnswer(a, copied) ==
  /\ program = "self_healing"
  /\ hpc = "ask"
  /\ response' = Normalise(a)
  /\ IF Approves(Normalise(a)) /\ ~copied
     THEN /\ lastResult' = "False"
          /\ hpc' = "idle"
          /\ UNCHANGED <<files, backups, fix_history>>
     ELSE IF Approves(Normalise(a))
     THEN LET b == CreateBackup(files, hfile, now)
              written == [files EXCEPT ![hfile] = fixed_code]
              is_valid == CompilesOk(written[hfile])
          IN /\ backups' = WithBackup(backups, b)
             /\ files' = AfterVerification(written, hfile, files[hfile])
             /\ fix_history' = Append(fix_history,
                                      [file |-> hfile, success |-> is_valid])
             /\ lastResult' = IF is_valid THEN "True" ELSE "False"
             /\ hpc' = "idle"
     ELSE IF Declines(Normalise(a))
     THEN /\ lastResult' = "False"
          /\ hpc' = "idle"
          /\ UNCHANGED <<files, backups, fix_history>>
     ELSE \* 'd', 'details' or anything else: ask again
          UNCHANGED <<files, backups, fix_history, lastResult, hpc>>
  /\ UNCHANGED <<smVars, emVars, log, program, hfile, herror, ai_response,
                 fixed_code, preContent, now, scanned, error_history, batchVars,
                 extVars>>

\* input() raises EOFError: caught at line 246, the call returns False
HealAnswerEOF ==
  /\ program = "self_healing"
  /\ hpc = "ask"
  /\ response' = "EOF"
  /\ lastResult' = "False"
  /\ hpc' = "idle"
  /\ UNCHANGED <<smVars, emVars, envVars, program, hfile, herror, ai_response,
                 fixed_code, preContent, backups, now, scanned, fix_history,
                 error_history, batchVars, extVars>>

\* a second passes
Tick ==
  /\ program = "self_healing"
  /\ now < MaxClock
  /\ now' = now + 1
  /\ UNCHANGED <<smVars, emVars, envVars, program, hpc, hfile, herror,
                 ai_response, fixed_code, response, preContent, backups,
                 scanned, fix_history, error_history, lastResult, batchVars,
                 extVars>>

\* monitor_files, line 298: the pass over the files is over and the thread
\* sleeps 30 seconds; the next pass visits every file again. The locals of
\* the fix_file_with_ai calls of the pass are gone
HealSleep ==
  /\ program = "self_healing"
  /\ hpc = "idle"
  /\ scanned # {}
  /\ now < MaxClock
  /\ now' \in (now + 1)..MaxClock
  /\ scanned' = {}
  /\ hfile' = "None" /\ herror' = "None" /\ preContent' = "None"
  /\ ai_response' = NoReply /\ fixed_code' = "None" /\ response' = "None"
  /\ lastResult' = "None"
  /\ UNCHANGED <<smVars, emVars, envVars, program, hpc, backups,
                 fix_history, error_history, batchVars, extVars>>

\* the local wall clock is set back while the thread sleeps between two
\* passes (daylight saving time ends, or the clock is corrected):
\* datetime.now() is naive local time and reads an earlier value again
ClockSetBack ==
  /\ program = "self_healing"
  /\ hpc = "idle" /\ scanned = {}
  /\ now > 0
  /\ now' \in 0..(now - 1)
  /\ UNCHANGED <<smVars, emVars, envVars, program, hpc, hfile, herror,
                 ai_response, fixed_code, response, preContent, backups,
                 scanned, fix_history, error_history, lastResult, batchVars,
                 extVars>>

-----------------------------------------------------------------------------
(* The batch fixer ai_fix_project.py *)

\* files a traceback frame can name: the project's files, a file of an
\* installed package inside the project tree, a file outside the project
FramePaths == Files \cup {"venv/site-packages/flask.py", "/usr/lib/python3/os.py"}

\* filter_in_repo_frames keeps the frame
InRepo(path) == path \in Files

FrameSeqs == UNION {[1..n -> FramePaths] : n \in 0..MaxFrames}

\* what run_command can return: [code, stderr, frames, timeout]
\* with stderr "" (blank) or "text", frames being the frames stderr names and
\* timeout telling that communicate() raised TimeoutExpired (lines 126-130:
\* the code is then 124 and stderr is never blank); a command can also exit
\* with code 124 by itself
RunOutcomes ==
  {[code |-> 0, stderr |-> "", frames |-> <<>>, timeout |-> FALSE]}
  \cup [code : {124}, stderr : {"text"}, frames : {<<>>}, timeout : BOOLEAN]
  \cup [code : {1, 2, 5, 124}, stderr : {""}, frames : {<<>>}, timeout : {FALSE}]
  \cup [code : {0, 1}, stderr : {"text"}, frames : FrameSeqs, timeout : {FALSE}]

\* run_command was not called yet
NoRun == [code |-> 0, stderr |-> "None", frames |-> <<>>, timeout |-> FALSE]

ChooseFirstInRepo(frames) ==
  LET in_repo == SelectSeq(frames, InRepo)
  IN IF in_repo = <<>> THEN "None" ELSE in_repo[1]

\* choose_target_file: the last in-repo frame, or None
ChooseTargetFile(frames) ==
  LET in_repo == SelectSeq(frames, InRepo)
  IN IF in_repo = <<>> THEN "None" ELSE in_repo[Len(in_repo)]

BatchExitGeneric(code) ==
  /\ bpc' = "exit"
  /\ bexit' = IF code \in {0, 1, 2, 3, 124} THEN code ELSE 1

\* main returns code and sys.exit(main()) makes it the exit status
BatchExit(code) ==
  /\ bpc' = "exit"
  /\ bexit' = code

\* main, lines 239-278: one run of the command, up to the call of the provider
BatchRun(out) ==
  /\ program = "ai_fix_project"
  /\ bpc = "run"
  /\ out \in RunOutcomes
  /\ run_result' = out
  /\ LET target == ChooseTargetFile(out.frames) IN
     IF out.code = 0 /\ out.stderr = "" THEN BatchExit(0) /\ btarget' = btarget
     ELSE IF out.code = 124 THEN BatchExit(124) /\ btarget' = btarget
     ELSE IF out.stderr = "" THEN BatchExit(out.code) /\ btarget' = btarget
     ELSE IF target = "None" THEN BatchExit(1) /\ btarget' = btarget
     ELSE IF Strip(files[target]) = "" THEN BatchExit(1) /\ btarget' = target
     ELSE /\ bpc' = "gen"
          /\ btarget' = target
          /\ bexit' = bexit
  /\ UNCHANGED <<smVars, emVars, envVars, healVars, attempt, apc, aexit, extVars>>

\* main, lines 278-294: the provider answers or raises; the fix is written
BatchGenerated(r) ==
  /\ program = "ai_fix_project"
  /\ bpc = "gen"
  /\ ai_response' = r
  /\ IF r = Raised THEN BatchExit(2) /\ UNCHANGED <<files, attempt>>
     ELSE IF Strip(ExtractCode(r)) = ""
     THEN BatchExit(3) /\ UNCHANGED <<files, attempt>>
     ELSE /\ files' = [files EXCEPT ![btarget] = ExtractCode(r)]
          /\ IF attempt < MaxAttempts
             THEN /\ attempt' = attempt + 1
                  /\ bpc' = "run"
                  /\ bexit' = bexit
             ELSE /\ attempt' = attempt
                  /\ BatchExit(1)      \* Reached max attempts
  /\ UNCHANGED <<smVars, emVars, log, program, hpc, hfile, herror, fixed_code,
                 response, preContent, backups, now, scanned, fix_history,
                 error_history, lastResult, btarget, run_result, apc, aexit,
                 extVars>>

-----------------------------------------------------------------------------
(* The batch fixer AI/AI/ai_fix.py *)

\* main, lines 221-237: args has no attribute `provider` (no --provider
\* argument is declared), so line 237 raises AttributeError before program.py
\* is created, run or overwritten; the interpreter exits with code 1
AiFixMain ==
  /\ program = "ai_fix"
  /\ apc = "start"
  /\ apc' = "exit"
  /\ aexit' = 1
  /\ UNCHANGED <<smVars, emVars, envVars, healVars, bpc, attempt, btarget, bexit,
                 run_result, extVars>>

-----------------------------------------------------------------------------
(* Specification of the supervisor and the handle-error cycle *)

\* SelfHealingMonitor.__init__, self_healing_system.py:75-80
HealIdle ==
  /\ hpc = "idle" /\ hfile = "None" /\ herror = "None"
  /\ ai_response = NoReply /\ fixed_code = "None" /\ response = "None"
  /\ preContent = "None" /\ backups = {} /\ now = 0 /\ scanned = {}
  /\ fix_history = <<>> /\ error_history = <<>> /\ lastResult = "None"

\* bexit and aexit are the exit codes once bpc, apc = "exit"
BatchIdle ==
  /\ bpc = "off" /\ attempt = 0 /\ btarget = "None" /\ bexit = 0
  /\ run_result = NoRun
  /\ apc = "off" /\ aexit = 0

\* no call of the ServerManager API was made yet
NoCall == [op |-> "None", name |-> "None", ret |-> "None",
           sent |-> <<>>, visited |-> <<>>, seq |-> 0]

\* no poll cycle has run yet
NoneHanded == [by |-> "None", errors |-> <<>>, quit |-> FALSE]

ExtIdle == call = NoCall /\ handed = NoneHanded

\* the state after ErrorManager() was constructed: three servers registered,
\* none started (error_manager.py:167-224)
InitEM ==
  /\ servers = [n \in Names |-> [running |-> FALSE, process |-> NoPid]]
  /\ regOrder = ServerNames
  /\ paused_servers = {}
  /\ os = [p \in Pids |-> "free"]
  /\ error_detected = FALSE
  /\ current_error = NoError
  /\ correction_code = "None"
  /\ gen_result = "None"
  /\ error_lock = "free"
  /\ monitoring_active = TRUE
  /\ ai_client \in BOOLEAN
  /\ started = FALSE
  /\ pc = [t \in Threads |-> "idle"]
  /\ arg = [t \in Threads |-> NoError]
  /\ contended = [t \in Threads |-> FALSE]
  /\ exited = FALSE
  /\ files = [f \in Files |-> "ok"]
  /\ log = <<>>
  /\ program = "error_manager"
  /\ HealIdle
  /\ BatchIdle
  /\ ExtIdle

NextEM ==
  \/ StartAllServers
  \/ DetectorPoll
  \/ AiMonitorPoll
  \/ \E t \in Threads : Acquire(t)
  \/ \E t \in Threads : Enter(t)
  \/ \E t \in Threads : Generate(t)
  \/ \E t \in Threads : InputResume(t)
  \/ \E t \in Threads : InputQuit(t)
  \/ \E t \in Threads : InputEOF(t)
  \/ \E p \in Pids : ChildExit(p)
  \/ \E f \in Files, c \in Contents : EditFile(f, c)
  \/ \E r \in {"error"} : AppendLog(r)

SpecEM == InitEM /\ [][NextEM]_vars

\* the next step of the thread that runs start_monitoring, with an operator
\* who answers every prompt with ENTER
DetectorStep ==
  \/ DetectorPoll
  \/ Acquire("detector")
  \/ Enter("detector")
  \/ Generate("detector")
  \/ InputResume("detector")

NextEMFair ==
  \/ StartAllServers
  \/ DetectorStep
  \/ \E p \in Pids : ChildExit(p)
  \/ \E f \in Files, c \in Contents : EditFile(f, c)
  \/ \E r \in {"error"} : AppendLog(r)

\* error_manager.py run as the program: main calls start_all_servers (line
\* 497) and then start_monitoring (line 501), whose loop polls every 5
\* seconds for as long as the program runs; the thread is the only one that
\* takes the lock, so whenever it has a next step it takes it
SpecEMFair ==
  /\ InitEM
  /\ [][NextEMFair]_vars
  /\ WF_vars(StartAllServers)
  /\ WF_vars(DetectorStep)

-----------------------------------------------------------------------------
(* Specification of the programs that write AI output to source files *)

\* one of the three programs was started, on files that are empty, compile
\* or do not compile
InitFix ==
  /\ servers = [n \in Names |-> [running |-> FALSE, process |-> NoPid]]
  /\ regOrder = ServerNames
  /\ paused_servers = {}
  /\ os = [p \in Pids |-> "free"]
  /\ error_detected = FALSE
  /\ current_error = NoError
  /\ correction_code = "None"
  /\ gen_result = "None"
  /\ error_lock = "free"
  /\ monitoring_active = FALSE
  /\ program \in {"self_healing", "ai_fix_project", "ai_fix"}
  /\ ai_client \in (IF program = "self_healing" THEN BOOLEAN ELSE {FALSE})
  /\ started = FALSE
  /\ pc = [t \in Threads |-> "idle"]
  /\ arg = [t \in Threads |-> NoError]
  /\ contended = [t \in Threads |-> FALSE]
  /\ exited = FALSE
  /\ files \in [Files -> Contents \ {"bad2"}]   \* "bad2": what a provider writes
  /\ log = <<>>
  /\ HealIdle
  /\ attempt = 1 /\ btarget = "None" /\ bexit = 0 /\ aexit = 0
  /\ run_result = NoRun
  /\ bpc = IF program = "ai_fix_project" THEN "run" ELSE "off"
  /\ apc = IF program = "ai_fix" THEN "start" ELSE "off"
  /\ ExtIdle

NextFix ==
  \/ \E f \in Files, kind \in {"syntax", "runtime"} : HealDetect(f, kind)
  \/ \E r \in Replies \cup {Raised} : HealGenerated(r)
  \/ \E a \in Answers, copied \in BOOLEAN : HealAnswer(a, copied)
  \/ HealAnswerEOF
  \/ Tick
  \/ HealSleep
  \/ ClockSetBack
  \/ \E out \in RunOutcomes : BatchRun(out)
  \/ \E r \in Replies \cup {Raised} : BatchGenerated(r)
  \/ AiFixMain

SpecFix == InitFix /\ [][NextFix]_vars

-----------------------------------------------------------------------------
(* Specification of a program that drives the ServerManager API directly,  *)
(* as demo_server_management does                                          *)

\* names a caller can pass: the registered ones and one that is not
CallNames == Names \cup {"unregistered"}

\* the programs that call the API: one that works on the three entries the
\* ErrorManager registers, one that starts from ServerManager() and registers
\* its entry itself (as demo_error_management.py does)
SMClients == {"server_manager", "server_manager_demo"}

\* the name the second program uses
DemoNames == {"demo_server"}

\* the record of a call that ended in state S; seq alternates between 0 and
\* 1 from one call to the next
Called(op, name, S) ==
  /\ SetSM(S)
  /\ call' = [op |-> op, name |-> name, ret |-> S.ret,
              sent |-> S.sent, visited |-> S.visited, seq |-> 1 - call.seq]
  /\ UNCHANGED <<emVars, envVars, healVars, batchVars, handed>>

\* register_server(name), for a new name or one that is registered already
SMRegister(name) ==
  /\ program \in SMClients
  /\ Called("register", name, RegisterServer(SMState, name))

\* start_server(name); the program that works on the ErrorManager's three
\* entries starts a name only while its entry has no child
SMStart(name, ok) ==
  /\ program \in SMClients
  /\ program = "server_manager"
       => (name \in Names => servers[name].process = NoPid)
  /\ Called("start", name, StartServer(SMState, name, ok))

SMPause(name) ==
  /\ program \in SMClients
  /\ Called("pause", name, PauseServer(SMState, name))

SMResume(name) ==
  /\ program \in SMClients
  /\ Called("resume", name, ResumeServer(SMState, name))

\* pause_server(name) followed immediately by resume_server(name)
SMPauseResume(name) ==
  /\ program \in SMClients
  /\ Called("pause_resume", name,
            ResumeServer(PauseServer(SMState, name), name))

SMStop(name, intime) ==
  /\ program \in SMClients
  /\ Called("stop", name, StopServer(SMState, name, intime))

SMPauseAll ==
  /\ program \in SMClients
  /\ Called("pause_all", "None", PauseAllServers(SMState))

SMResumeAll(ord) ==
  /\ program \in SMClients
  /\ ord \in Orders(paused_servers)
  /\ Called("resume_all", "None", ResumeAllServers(SMState, ord))

SMStopAll(intime) ==
  /\ program \in SMClients
  /\ Called("stop_all", "None", StopAllServers(SMState, intime))

\* ServerManager() with the three servers registered, none started
InitSM ==
  /\ servers = [n \in Names |-> [running |-> FALSE, process |-> NoPid]]
  /\ regOrder = ServerNames
  /\ paused_servers = {}
  /\ os = [p \in Pids |-> "free"]
  /\ error_detected = FALSE
  /\ current_error = NoError
  /\ correction_code = "None"
  /\ gen_result = "None"
  /\ error_lock = "free"
  /\ monitoring_active = FALSE
  /\ ai_client = FALSE
  /\ started = FALSE
  /\ pc = [t \in Threads |-> "idle"]
  /\ arg = [t \in Threads |-> NoError]
  /\ contended = [t \in Threads |-> FALSE]
  /\ exited = FALSE
  /\ files = [f \in Files |-> "ok"]
  /\ log = <<>>
  /\ program = "server_manager"
  /\ HealIdle
  /\ BatchIdle
  /\ ExtIdle

NextSM ==
  \/ \E name \in CallNames, ok \in BOOLEAN : SMStart(name, ok)
  \/ \E name \in CallNames : SMPause(name)
  \/ \E name \in CallNames : SMResume(name)
  \/ \E name \in CallNames : SMPauseResume(name)
  \/ \E name \in CallNames, intime \in SUBSET Names : SMStop(name, intime)
  \/ SMPauseAll
  \/ \E ord \in Orders(paused_servers) : SMResumeAll(ord)
  \/ \E intime \in SUBSET Names : SMStopAll(intime)
  \/ \E p \in Pids : ChildExit(p)

SpecSM == InitSM /\ [][NextSM]_vars

\* ServerManager(): no entry, no child (error_manager.py:26-30)
InitDemo ==
  /\ servers = [n \in {} |-> [running |-> FALSE, process |-> NoPid]]
  /\ regOrder = <<>>
  /\ paused_servers = {}
  /\ os = [p \in Pids |-> "free"]
  /\ error_detected = FALSE
  /\ current_error = NoError
  /\ correction_code = "None"
  /\ gen_result = "None"
  /\ error_lock = "free"
  /\ monitoring_active = FALSE
  /\ ai_client = FALSE
  /\ started = FALSE
  /\ pc = [t \in Threads |-> "idle"]
  /\ arg = [t \in Threads |-> NoError]
  /\ contended = [t \in Threads |-> FALSE]
  /\ exited = FALSE
  /\ files = [f \in Files |-> "ok"]
  /\ log = <<>>
  /\ program = "server_manager_demo"
  /\ HealIdle
  /\ BatchIdle
  /\ ExtIdle

NextDemo ==
  \/ \E name \in DemoNames : SMRegister(name)
  \/ \E name \in DemoNames, ok \in BOOLEAN : SMStart(name, ok)
  \/ \E name \in DemoNames : SMPause(name)
  \/ \E name \in DemoNames : SMResume(name)
  \/ \E name \in DemoNames, intime \in SUBSET DemoNames : SMStop(name, intime)
  \/ \E intime \in SUBSET DemoNames : SMStopAll(intime)
  \/ \E p \in Pids : ChildExit(p)

SpecDemo == InitDemo /\ [][NextDemo]_vars

-----------------------------------------------------------------------------
(* TerminalErrorInterface: its detector loop, and the specification of the *)
(* two detector loops running side by side on the same ServerManager, as   *)
(* start_system_with_error_management.py starts them                       *)

\* the error start_monitoring builds from the latest recent error record
TermLogError == [type |-> "log_error", severity |-> "high", subject |-> "log"]

\* TerminalErrorInterface._check_syntax_errors: the same files, in the same
\* order, with the same records
TermCheckSyntaxErrors == SyntaxErrorsFrom(1)

TermFoundSyntaxFirst(error_logs) ==
  (IF TermCheckSyntaxErrors # <<>> THEN <<TermCheckSyntaxErrors[1]>> ELSE <<>>)
    \o (IF error_logs THEN <<TermLogError>> ELSE <<>>)

\* the errors one cycle of start_monitoring passes to process_error when the
\* operator resumes each time; error_logs: self.ai_monitor is set and
\* collect_recent_logs(minutes=1) holds an error record
TermFound(error_logs) ==
  (IF error_logs THEN <<TermLogError>> ELSE <<>>)
    \o (IF TermCheckSyntaxErrors # <<>> THEN <<TermCheckSyntaxErrors[1]>> ELSE <<>>)

\* the states process_error can end in: pause all, then resume all on
\* 'resume', or stop all and sys.exit(0) on 'quit'
TermProcessError(S, answer) ==
  LET P == PauseAllServers(S) IN
  IF answer = "quit" THEN {StopAllServers(P, intime) : intime \in SUBSET Names}
  ELSE {ResumeAllServers(P, ord) : ord \in Orders(P.paused)}

\* one cycle of TerminalErrorInterface.start_monitoring; answers[i]: what the
\* operator enters at the i-th error screen of the cycle
TermPoll(error_logs, answers) ==
  /\ started /\ ~exited
  /\ ~handed.quit
  /\ error_logs => log # <<>>
  /\ LET found == TermFound(error_logs)
         n == IF found # <<>> /\ answers[1] = "quit" THEN 1 ELSE Len(found)
         processed == SubSeq(found, 1, n)
     IN /\ handed' = [by |-> "terminal", errors |-> processed,
                      quit |-> (n > 0 /\ answers[n] = "quit")]
        /\ IF n = 0 THEN UNCHANGED smVars
           ELSE \E S1 \in TermProcessError(SMState, answers[1]) :
                  IF n = 1 THEN SetSM(S1)
                  ELSE \E S2 \in TermProcessError(S1, answers[2]) : SetSM(S2)
  /\ UNCHANGED <<emVars, envVars, healVars, batchVars, call>>

\* start_system_with_error_management.py: the servers registered, none
\* started, no error being handled
InitDetect ==
  /\ servers = [n \in Names |-> [running |-> FALSE, process |-> NoPid]]
  /\ regOrder = ServerNames
  /\ paused_servers = {}
  /\ os = [p \in Pids |-> "free"]
  /\ error_detected = FALSE
  /\ current_error = NoError
  /\ correction_code = "None"
  /\ gen_result = "None"
  /\ error_lock = "free"
  /\ monitoring_active = TRUE
  /\ ai_client = FALSE          \* no GEMINI_API_KEY is set
  /\ started = FALSE
  /\ pc = [t \in Threads |-> "idle"]
  /\ arg = [t \in Threads |-> NoError]
  /\ contended = [t \in Threads |-> FALSE]
  /\ exited = FALSE
  /\ files = [f \in Files |-> "ok"]
  /\ log = <<>>
  /\ program = "start_system"
  /\ HealIdle
  /\ BatchIdle
  /\ ExtIdle

\* the operator resumes every cycle of ErrorManager's loop
NextDetect ==
  \/ StartAllServers
  \/ DetectorPoll
  \/ Acquire("detector")
  \/ Enter("detector")
  \/ Generate("detector")
  \/ InputResume("detector")
  \/ \E error_logs \in BOOLEAN, answers \in [1..2 -> {"resume", "quit"}] :
       TermPoll(error_logs, answers)
  \/ \E p \in Pids : ChildExit(p)
  \/ \E f \in Files, c \in Contents : EditFile(f, c)
  \/ \E r \in {"error"} : AppendLog(r)

SpecDetect == InitDetect /\ [][NextDetect]_vars

-----------------------------------------------------------------------------
(* Claims about the handle-error cycle (checked under SpecEM) *)

\* C1: at most one thread is inside the section of handle_error that pauses
\* the servers, prompts the operator and resumes the servers (the body of
\* `with self.error_lock`), for every interleaving of the detector thread and
\* the AI monitor thread.
C1_OneErrorHandledAtATime ==
  \A t1 \in Threads, t2 \in Threads :
    (pc[t1] \in InCycle /\ pc[t2] \in InCycle) => t1 = t2

\* a thread is prompting the operator while the other is blocked on the lock
C1_Witness ==
  \E t1 \in Threads, t2 \in Threads :
    pc[t1] = "prompt" /\ pc[t2] = "wait"

\* C2 (as claimed): a handle_error call made while another cycle is in flight
\* is dropped: it never pauses servers, displays a correction or prompts the
\* operator, neither during the first cycle nor after it.
C2_SecondDetectionDropped ==
  \A t \in Threads : contended[t] => pc[t] \notin {"gen", "prompt"}

C4_AllResumedAfterCycle ==
  (~error_detected /\ \A t \in Threads : pc[t] \notin InCycle)
    => paused_servers = {}

\* C10: when generation fails (no client, the provider raises, nothing is
\* returned) the operator is shown the manual-fix placeholder, no step of the
\* cycle modifies a source file, and the placeholder is never a file's content.
C10_FailedGenerationLeavesFiles ==
  [][ /\ \A f \in Files : files'[f] # Placeholder
      /\ (\E t \in Threads : pc[t] \in InCycle /\ pc'[t] # pc[t])
            => files' = files
      /\ \A t \in Threads :
           (pc'[t] = "prompt" /\ gen_result' \in {"None", ""})
             => correction_code' = Placeholder ]_vars

\* a client is configured, the generation failed, the placeholder is shown
C10_Witness ==
  /\ \E t \in Threads : pc[t] = "prompt"
  /\ ai_client
  /\ gen_result \in {"None", ""}
  /\ correction_code = Placeholder

-----------------------------------------------------------------------------
(* Claims about the programs that write AI output (checked under SpecFix) *)

C6_BackupBeforeOverwrite ==
  [][ (program = "self_healing" /\ hpc = "ask"
         /\ Len(fix_history') > Len(fix_history))
        => /\ response' \in {"y", "yes"}
           /\ \E b \in backups' :
                /\ b.name = <<BaseName(hfile), ".backup_", now>>
                /\ b.content = files[hfile]
           /\ files'[hfile] = fixed_code ]_vars

\* a candidate that differs from the original was applied and backed up
C6_Witness ==
  /\ program = "self_healing"
  /\ hpc = "idle"
  /\ response \in {"y", "yes"}
  /\ files[hfile] = fixed_code
  /\ fixed_code # preContent
  /\ \E b \in backups :
       b.name = <<BaseName(hfile), ".backup_", now>> /\ b.content = preContent

\* C7: when the operator answers n/no, the target file keeps the content it
\* had when the error was detected, no backup is created, nothing is recorded
\* as a fix and fix_file_with_ai returns False.
C7_RejectLeavesFile ==
  [][ (program = "self_healing" /\ hpc = "ask" /\ response' \in {"n", "no"})
        => /\ files' = files
           /\ files'[hfile] = preContent
           /\ backups' = backups
           /\ fix_history' = fix_history
           /\ hpc' = "idle"
           /\ lastResult' = "False" ]_vars

\* the operator declined a candidate with "no"
C7_Witness ==
  /\ program = "self_healing"
  /\ hpc = "idle"
  /\ response = "no"
  /\ lastResult = "False"
  /\ fixed_code # preContent
  /\ files[hfile] = preContent
  /\ backups = {}

\* C8: if the text extracted from the AI reply is blank, no file is written:
\* the interactive loop returns False without prompting, ai_fix_project.py
\* exits with code 3.
C8_BlankFixNeverWritten ==
  [][ LET \* the body of the first fence, or else the whole reply, is blank
          blank(r) == r # Raised /\ r # NoReply /\ r.text \in {"", " "}
      IN
      /\ (program = "self_healing" /\ hpc = "gen" /\ hpc' # "gen"
            /\ blank(ai_response'))
         => (files' = files /\ hpc' = "idle" /\ lastResult' = "False"
               /\ response' = response /\ backups' = backups)
      /\ (program = "ai_fix_project" /\ bpc = "gen" /\ bpc' # "gen"
            /\ blank(ai_response'))
         => (files' = files /\ bpc' = "exit" /\ bexit' = 3)
      /\ (program = "ai_fix" => files' = files) ]_vars

\* the reply held a fence with a blank body and the fix attempt was aborted
C8_Witness ==
  /\ program = "self_healing"
  /\ ai_response = [fenced |-> TRUE, text |-> " "]
  /\ hpc = "idle"
  /\ lastResult = "False"
  /\ response = "None"
  /\ files[hfile] = preContent

\* C9: if the applied candidate still does not compile, the file keeps the
\* candidate, the backup holds the content from before the apply, the attempt
\* is recorded with success False and fix_file_with_ai returns False.
C9_FailedVerificationNotRestored ==
  [][ (program = "self_healing" /\ hpc = "ask"
         /\ Len(fix_history') > Len(fix_history) /\ ~CompilesOk(fixed_code))
        => /\ files'[hfile] = fixed_code
           /\ \E b \in backups' :
                /\ b.name = <<BaseName(hfile), ".backup_", now>>
                /\ b.content = files[hfile]
           /\ Len(fix_history') = Len(fix_history) + 1
           /\ fix_history'[Len(fix_history')] = [file |-> hfile, success |-> FALSE]
           /\ lastResult' = "False" ]_vars

\* a candidate that does not compile replaced an original that it differs from
C9_Witness ==
  /\ program = "self_healing"
  /\ hpc = "idle"
  /\ lastResult = "False"
  /\ fix_history # <<>>
  /\ ~fix_history[Len(fix_history)].success
  /\ files[hfile] = "bad2"
  /\ preContent = "bad"
  /\ \E b \in backups : b.content = "bad"

-----------------------------------------------------------------------------
(* Claims about the ServerManager API (checked under SpecSM) *)

\* C11 (as claimed): for every registered name with running=true, pause(name)
\* followed immediately by resume(name) ends with the name not in the paused
\* set, running still true and the same pid in its entry.
C11_PauseResumeRoundTrip ==
  [][ (call'.seq # call.seq /\ call'.op = "pause_resume" /\ call'.name \in Names
         /\ servers[call'.name].running)
        => /\ call'.name \notin paused_servers'
           /\ servers'[call'.name].running
           /\ servers'[call'.name].process = servers[call'.name].process ]_vars

\* C12 (as claimed): stop(name) on a child that is stopped by SIGSTOP removes
\* the name from the paused set and sets running=false.
C12_StopClearsPaused ==
  [][ (call'.seq # call.seq /\ call'.op = "stop" /\ call'.name \in Names
         /\ call'.name \in paused_servers
         /\ servers[call'.name].process # NoPid
         /\ os[servers[call'.name].process] = "stop")
        => /\ call'.name \notin paused_servers'
           /\ ~servers'[call'.name].running ]_vars

\* C13 (as claimed): pause(name) on a name that is already paused or has
\* running=false returns False, sends no signal and changes no field.
C13_PauseNoOp ==
  [][ (call'.seq # call.seq /\ call'.op = "pause" /\ call'.name \in Names
         /\ (call'.name \in paused_servers \/ ~servers[call'.name].running))
        => /\ call'.ret = "False"
           /\ call'.sent = <<>>
           /\ smVars' = smVars ]_vars

\* C13 (amended): pause(name) returns False, sends no signal and changes no
\* field when the name is not registered, has running=false or its child has
\* exited; on a name that is already paused and whose child is alive it sends
\* SIGSTOP once more and returns True, leaving every field as it was.
C13_PauseNoOpUnlessAlive ==
  [][ (call'.seq # call.seq /\ call'.op = "pause") =>
        LET n == call'.name
            p == servers[n].process
        IN /\ (n \notin Names \/ ~servers[n].running \/ p = NoPid \/ ~Alive(os, p))
                => (call'.ret = "False" /\ call'.sent = <<>> /\ smVars' = smVars)
           /\ (n \in Names /\ n \in paused_servers /\ servers[n].running
                 /\ p # NoPid /\ Alive(os, p))
                => (call'.ret = "True" /\ call'.sent = << <<p, "SIGSTOP">> >>
                      /\ servers' = servers /\ regOrder' = regOrder
                      /\ paused_servers' = paused_servers
                      /\ os' = [os EXCEPT ![p] = SigStop(@)]) ]_vars

\* pause was called on a paused entry whose child had exited: nothing happened
C13_Witness ==
  /\ call.op = "pause"
  /\ call.name \in Names
  /\ call.ret = "False"
  /\ call.sent = <<>>
  /\ call.name \in paused_servers
  /\ servers[call.name].running
  /\ os[servers[call.name].process] = "dead"

\* C14 (as claimed): stop(name) on a registered name always ends with the
\* child terminated, the handle cleared, running=false and the name absent
\* from the paused set.
C14_StopAlwaysCompletes ==
  [][ (call'.seq # call.seq /\ call'.op = "stop" /\ call'.name \in Names)
        => /\ ~servers'[call'.name].running
           /\ servers'[call'.name].process = NoPid
           /\ call'.name \notin paused_servers'
           /\ servers[call'.name].process # NoPid
                => ~Alive(os', servers[call'.name].process) ]_vars

\* C15 (as claimed): pause_all, resume_all and stop_all call the single-entry
\* operation on every applicable entry, in registration order, whatever the
\* calls on earlier entries returned.
C15_AllInRegistrationOrder ==
  [][ LET pausable(n) == servers[n].running /\ n \notin paused_servers
          ispaused(n) == n \in paused_servers
      IN call'.seq # call.seq =>
         /\ call'.op = "pause_all" => call'.visited = SelectSeq(regOrder, pausable)
         /\ call'.op = "stop_all" => call'.visited = regOrder
         /\ call'.op = "resume_all" => call'.visited = SelectSeq(regOrder, ispaused)
    ]_vars

\* C15 (amended): pause_all and stop_all call the single-entry operation on
\* every applicable entry in registration order; resume_all calls it exactly
\* once on every paused name, in the order the paused set enumerates them;
\* in all three a failed call never stops the iteration.
C15_AllEntriesAttempted ==
  [][ LET pausable(n) == servers[n].running /\ n \notin paused_servers
      IN call'.seq # call.seq =>
         /\ call'.op = "pause_all" => call'.visited = SelectSeq(regOrder, pausable)
         /\ call'.op = "stop_all" => call'.visited = regOrder
         /\ call'.op = "resume_all"
              => /\ Len(call'.visited) = Cardinality(paused_servers)
                 /\ {call'.visited[i] : i \in 1..Len(call'.visited)} = paused_servers
    ]_vars

\* stop_all went through all three entries although the stop of the first
\* one failed
C15_Witness ==
  /\ call.op = "stop_all"
  /\ call.visited = regOrder
  /\ servers[regOrder[1]].running
  /\ \A i \in 2..Len(regOrder) : ~servers[regOrder[i]].running
  /\ Len(call.sent) = Len(regOrder)

-----------------------------------------------------------------------------
(* Claims about detection and quitting (checked under SpecEM and SpecDetect) *)

\* C16 (as claimed): when a poll of the detector reports that the child of a
\* supervised process with running=true has exited, crash detection clears the
\* entry: its handle is dropped and running becomes false.
C16_CrashClearsEntry ==
  [][ (pc["detector"] = "idle" /\ pc'["detector"] = "wait"
         /\ arg'["detector"].type = "server_crash")
        => /\ ~servers'[arg'["detector"].subject].running
           /\ servers'[arg'["detector"].subject].process = NoPid ]_vars

C20_QuitStopsEverything ==
  [][ (\E t \in Threads : pc[t] = "prompt" /\ pc'[t] = "dead")
        => /\ \A n \in Names :
                ~servers'[n].running /\ servers'[n].process = NoPid
           /\ \A p \in Pids : ~Alive(os', p)
           /\ exited'
           /\ \A t \in Threads : pc'[t] = "dead" ]_vars

-----------------------------------------------------------------------------
(* Histories, exit codes, backups and the choice of the file to fix *)

\* C21 (as claimed): the histories of detected errors and of correction
\* attempts are bounded: each holds at most a fixed N entries, so over the
\* cycles the monitor runs an append to a full history evicts the oldest entry
\* and the history stays shorter than the number of cycles.
C21_HistoriesBounded ==
  /\ Len(error_history) < MaxCycles
  /\ Len(fix_history) < MaxCycles

\* C22 (as claimed): the batch fixer's exit code is always one of 0, 1, 2, 3
\* and 124, and 124 is returned exactly when the run timed out.
C22_ExitCodeIdentifiesOutcome ==
  /\ (bpc = "exit" => bexit \in {0, 1, 2, 3, 124})
  /\ (bpc = "exit" /\ bexit = 124 => run_result.timeout)
  /\ (apc = "exit" => aexit \in {0, 1, 2, 3, 124})

\* C22 (amended): when ai_fix_project.py exits, its code is 0 exactly when
\* the command returned 0 with blank stderr; 124 exactly when run_command
\* returned 124 (a timeout, or the command's own exit code 124); the command's
\* own exit code, whatever it is, when stderr is blank; 2 when the provider
\* raised and 3 when the extracted fix is blank; 1 otherwise.  AI/AI/ai_fix.py
\* always exits with 1.
C22_ExitCodeFollowsRun ==
  [][ /\ (program = "ai_fix_project" /\ bpc = "run" /\ bpc' = "exit")
         => LET r == run_result' IN
            /\ (r.timeout => r.code = 124 /\ r.stderr # "")
            /\ bexit' = (IF r.code = 0 /\ r.stderr = "" THEN 0
                         ELSE IF r.code = 124 THEN 124
                         ELSE IF r.stderr = "" THEN r.code
                         ELSE 1)
      /\ (program = "ai_fix_project" /\ bpc = "gen" /\ bpc' = "exit")
         => bexit' = (IF ai_response' = Raised THEN 2
                      ELSE IF Strip(ExtractCode(ai_response')) = "" THEN 3
                      ELSE 1)
      /\ (program = "ai_fix_project" /\ bpc' = "exit" /\ bexit' = 0)
         => (bpc = "run" /\ run_result'.code = 0 /\ run_result'.stderr = "")
      /\ (apc = "start" /\ apc' = "exit") => aexit' = 1 ]_vars

\* the command exits with a code outside the claimed set and prints nothing
\* to stderr: that code is passed through
C22_Witness ==
  /\ program = "ai_fix_project" /\ bpc = "exit"
  /\ run_result.stderr = "" /\ run_result.code = 5
  /\ bexit = 5

\* C23 (as claimed): the backup area is write-once: a backup file, once
\* created by create_backup, is never overwritten by a later backup, so the
\* content saved by every apply attempt stays in the backup area.
C23_BackupWriteOnce ==
  [][ \A b \in backups : b \in backups' ]_vars

-----------------------------------------------------------------------------
(* The supervisor's entries and the children it spawned *)

\* C25 (as claimed): every name in the paused set is a registered entry with
\* running=true and a process handle: get_server_status never reports
\* paused=true together with running=false or pid=None, also after a name was
\* registered a second time.
C25_PausedEntriesRunning ==
  /\ paused_servers \subseteq DOMAIN servers
  /\ LET status == GetServerStatus(SMState)
     IN \A n \in DOMAIN status :
          status[n].paused => (status[n].running /\ status[n].pid # NoPid)

\* C26 (as claimed): every live child is reachable through the handle of a
\* registered entry (so at most one live child exists per name and stop or
\* stop_all can terminate every child), also after start was called on an
\* entry that is running already.
C26_EveryChildHasHandle ==
  \A p \in Pids :
    Alive(os, p) => \E n \in DOMAIN servers : servers[n].process = p

-----------------------------------------------------------------------------
(* The error flag, starvation and repeated handling *)

\* C27 (as claimed): whenever no handle_error invocation is executing,
\* error_detected is false and current_error is None: every way of leaving
\* handle_error (resume, quit in the monitoring thread, an exception at the
\* prompt) resets the flag.
C27_FlagResetOnEveryExit ==
  (~exited /\ \A t \in Threads : pc[t] \in {"idle", "dead"})
    => (~error_detected /\ current_error = NoError)

\* C28 (as claimed): no starvation among errors: with an operator who always
\* resumes, a syntax error (severity high) that stays in a tracked file, and
\* so is detected on every poll, is eventually handed to handle_error, also
\* when a supervised server has crashed and is never restarted.
C28_NoStarvation ==
  (<>[](~CompilesOk(files[PythonFiles[1]])))
    => <>(/\ pc["detector"] # "idle"
          /\ arg["detector"] = SyntaxError(PythonFiles[1]))

\* C29 (as claimed): a log record flagged as an error is handled at most
\* once: once the operator has resumed from its cycle, polls over the
\* unchanged log start no further cycle for it.  The log holds finitely many
\* records, so from some point on no cycle for a log error starts any more.
C29_LogErrorHandledOnce ==
  <>[][ ~(/\ pc["detector"] = "idle"
          /\ pc'["detector"] = "wait"
          /\ arg'["detector"].type = "log_error") ]_vars

-----------------------------------------------------------------------------
(* The batch fixer's last attempt *)

\* C30 (as claimed): every fix the batch fixer writes is re-run before the
\* result is reported: after a write, in any attempt up to and including
\* max_attempts, the command is run again (and main returns 0 if it succeeds)
\* instead of main reporting that the attempts are exhausted.
C30_EveryFixIsRerun ==
  [][ (program = "ai_fix_project" /\ bpc = "gen" /\ files' # files)
        => (bpc' = "run" /\ attempt' <= MaxAttempts) ]_vars

====
